---- MODULE Spec2Model ----
(***************************************************************************)
(* Model of streamlit_app.py: the Streamlit script that fetches the posts  *)
(* of an Instagram account and asks the GROQ completion API for a new post *)
(* in the style of the selected one.                                       *)
(*                                                                         *)
(* One state of the model is the state at the end of one run of the script *)
(* (one "rerun"): the configuration read at module level, the session      *)
(* state kept by Streamlit between reruns, and what the rerun did (the     *)
(* calls it made, the messages it emitted, the widgets it rendered).       *)
(*                                                                         *)
(* Encodings.  An optional value (Python None or an object) is a sequence  *)
(* of length 0 or 1, except selected_post_pk, where None is 0 and the pks  *)
(* are positive.  An HttpUrl object is <<s>> with s its string form.  A    *)
(* configuration value is TRUE when it is present and non-empty.           *)
(***************************************************************************)
EXTENDS Integers, Sequences, FiniteSets

\* Bound of the model: the longest list the listing call returns.
MaxMedias == 2

\* None, as the value of selected_post_pk.
None == 0

VARIABLES
    groq_api_key,          \* st.secrets has GROQ_API_KEY
    groq_env_key,          \* the process environment has GROQ_API_KEY
    IG_USERNAME,           \* st.secrets["instagram"] has username
    IG_PASSWORD,           \* st.secrets["instagram"] has password
    session_keys,          \* keys present in st.session_state
    fetched_posts,         \* st.session_state.fetched_posts
    selected_post_pk,      \* st.session_state.selected_post_pk
    selected_label_radio,  \* widget state of the radio (key "selected_label_radio")
    click,                 \* the interaction that triggered the last rerun
    medias,                \* what the listing call returned in the last rerun
    fetch_result,          \* "not_called", "raised" or "returned"
    returned,              \* the list fetch_user_posts returned
    gen_result,            \* "not_called", "raised" or "returned"
    trace,                 \* functions and network calls of the last rerun, in order
    messages,              \* messages emitted in the last rerun
    aborted,               \* an exception left main in the last rerun
    radio_options,         \* options of the radio, <<>> when it was not rendered
    radio_index,           \* index passed to the radio, -1 when it was not rendered
    shown,                 \* selected_post_data whose details were displayed
    generate_offered,      \* the Generate button was rendered
    sent_caption           \* caption passed to generate_post_in_same_style

config == <<groq_api_key, groq_env_key, IG_USERNAME, IG_PASSWORD>>
session == <<session_keys, fetched_posts, selected_post_pk, selected_label_radio>>
rerun == <<click, medias, fetch_result, returned, gen_result, trace, messages,
           aborted, radio_options, radio_index, shown, generate_offered, sent_caption>>
vars == <<config, session, rerun>>

(***************************************************************************)
(* Values returned by the listing API.                                     *)
(***************************************************************************)
Pks == {1, 2}
Urls == {"https://cdn/t1.jpg", "https://cdn/t2.jpg"}
HttpUrls == {<<u>> : u \in Urls}
Captions == {"sunrise", "coffee"}

\* instagrapi's Resource: thumbnail_url is a required HttpUrl.
Resources == [thumbnail_url : HttpUrls]

SeqsUpTo(S, n) == UNION {[1..k -> S] : k \in 0..n}

\* The media the interaction model lists: pk and caption vary.
Medias ==
    [pk : Pks, caption_text : Captions, like_count : {7}, comment_count : {3},
     taken_at : {"2024-01-01"}, thumbnail_url : {<<"https://cdn/t1.jpg">>},
     resources : {<<>>}]

\* The media fetch_user_posts is applied to on its own: every field varies.
MediasWide ==
    [pk : Pks, caption_text : Captions, like_count : {7}, comment_count : {3},
     taken_at : {"2024-01-01"}, thumbnail_url : {<<>>} \cup {<<"https://cdn/t1.jpg">>},
     resources : {<<>>,
                  <<[thumbnail_url |-> <<"https://cdn/t2.jpg">>]>>,
                  <<[thumbnail_url |-> <<"https://cdn/t2.jpg">>],
                    [thumbnail_url |-> <<"https://cdn/t1.jpg">>]>>}]

(***************************************************************************)
(* Python's conversions.                                                   *)
(***************************************************************************)
\* bool(x) of an optional object: None is false, an HttpUrl is true.
Truthy(opt) == opt # <<>>

\* str(x) of an optional HttpUrl: the URL's text, and "None" for None.
Str(opt) == IF opt = <<>> THEN "None" ELSE opt[1]

(***************************************************************************)
(* login_instagram and fetch_user_posts.  A listing is what the Instagram  *)
(* service does when asked: fail_at names the call that raises ("none"     *)
(* when none does) and medias is what user_medias returns.                 *)
(***************************************************************************)
FailPoints == {"login", "user_id_from_username", "user_medias"}

\* login_instagram: raises before any call when a credential is missing.
\* The result is the calls made and whether it raised.
LoginInstagram(username, password, listing) ==
    IF ~username \/ ~password
    THEN [raised |-> TRUE, calls |-> <<>>]
    ELSE [raised |-> listing.fail_at = "login", calls |-> <<"net:login">>]

\* Variant of ImageUrl without the truth test of media.thumbnail_url.
ImageUrlNoTruthCheck(media) ==
    IF "thumbnail_url" \in DOMAIN media
    THEN Str(media.thumbnail_url)
    ELSE IF "resources" \in DOMAIN media /\ Len(media.resources) > 0
         THEN Str(media.resources[1].thumbnail_url)
         ELSE ""

\* The image_url of one media (the body of the loop, up to the append).
ImageUrl(media) ==
    IF "thumbnail_url" \in DOMAIN media /\ Truthy(media.thumbnail_url)
    THEN Str(media.thumbnail_url)
    ELSE IF "resources" \in DOMAIN media /\ Len(media.resources) > 0
         THEN Str(media.resources[1].thumbnail_url)
         ELSE ""

\* The record appended for one media.
PostRecord(media) ==
    [pk |-> media.pk,
     caption |-> media.caption_text,
     like_count |-> media.like_count,
     comment_count |-> media.comment_count,
     taken_at |-> media.taken_at,
     image_url |-> ImageUrl(media)]

\* posts_data: one record per media, in order.
PostsData(ms) == [i \in 1..Len(ms) |-> PostRecord(ms[i])]

\* fetch_user_posts: login, user id, listing, conversion.  An exception of
\* any of the three calls leaves the function.
FetchUserPosts(username, password, listing) ==
    LET login == LoginInstagram(username, password, listing)
        start == <<"fetch_user_posts">> \o login.calls
    IN  IF login.raised
        THEN [status |-> "raised", value |-> <<>>, medias |-> <<>>, calls |-> start]
        ELSE IF listing.fail_at = "user_id_from_username"
        THEN [status |-> "raised", value |-> <<>>, medias |-> <<>>,
              calls |-> start \o <<"net:user_id_from_username">>]
        ELSE IF listing.fail_at = "user_medias"
        THEN [status |-> "raised", value |-> <<>>, medias |-> <<>>,
              calls |-> start \o <<"net:user_id_from_username", "net:user_medias">>]
        ELSE [status |-> "returned", value |-> PostsData(listing.medias),
              medias |-> listing.medias,
              calls |-> start \o <<"net:user_id_from_username", "net:user_medias">>]

\* The value of a function that was not called.
NotCalled == [status |-> "not_called", value |-> <<>>, medias |-> <<>>, calls |-> <<>>]

(***************************************************************************)
(* generate_post_in_same_style.  Groq() takes its key from the process     *)
(* environment and raises when there is none; the completion request is a  *)
(* network call that returns the text or raises.                           *)
(***************************************************************************)
GeneratePostInSameStyle(env_key, post_caption, completes) ==
    IF ~env_key
    THEN [status |-> "raised", caption |-> <<post_caption>>,
          calls |-> <<"generate_post_in_same_style">>]
    ELSE [status |-> IF completes THEN "returned" ELSE "raised",
          caption |-> <<post_caption>>,
          calls |-> <<"generate_post_in_same_style", "net:chat_completion">>]

(***************************************************************************)
(* main: the session defaults and the Fetch Posts button.                  *)
(***************************************************************************)
\* Variant of SetDefault without the "not in" test: the key is reset on every run.
SetDefaultAlways(key, value, default) == default

\* if key not in st.session_state: st.session_state[key] = default
SetDefault(key, value, default) ==
    IF key \in session_keys THEN value ELSE default

\* Variant of TryFetch that calls fetch_user_posts again when it raises.
TryFetchRetrying(username, password, listing) ==
    LET r == FetchUserPosts(username, password, listing)
    IN  IF r.status = "raised" THEN [r EXCEPT !.calls = r.calls \o r.calls] ELSE r

\* The call of fetch_user_posts in the try block: made once.
TryFetch(username, password, listing) ==
    FetchUserPosts(username, password, listing)

\* Variant of StoreFetched that keeps the stored posts when the fetch fails or is empty.
StoreFetchedKeepingOld(result, old) ==
    IF result.status = "raised" \/ result.value = <<>> THEN old ELSE result.value

\* What the Fetch Posts branch assigns to st.session_state.fetched_posts.
StoreFetched(result, old) ==
    IF result.status = "raised"
    THEN <<>>
    ELSE IF result.value = <<>> THEN <<>> ELSE result.value

\* What the Fetch Posts branch writes to the sidebar.
FetchMessages(result) ==
    IF result.status = "raised"
    THEN {"sidebar.error: Could not fetch posts."}
    ELSE IF result.value = <<>>
         THEN {"sidebar.warning: No posts found or an error occurred."}
         ELSE {"sidebar.success: Fetched posts."}

(***************************************************************************)
(* main: the post selector.  A label is the f-string's pieces in order; a  *)
(* dict is the sequence of its (key, value) pairs in insertion order.      *)
(***************************************************************************)
\* Variant of Label that does not number the posts.
LabelWithoutNumber(i, post) ==
    <<"Post #", 0, " | Likes: ", post.like_count, " | Comments: ", post.comment_count>>

\* f"Post #{i} | Likes: {post['like_count']} | Comments: {post['comment_count']}"
Label(i, post) ==
    <<"Post #", i, " | Likes: ", post.like_count, " | Comments: ", post.comment_count>>

\* post_options: (label, pk) of every post, numbered from 1.
PostOptions(posts) == [i \in 1..Len(posts) |-> <<Label(i, posts[i]), posts[i].pk>>]

\* d[k] = v of a Python dict: a known key keeps its place and takes the value.
DictPut(d, k, v) ==
    IF \E i \in 1..Len(d) : d[i][1] = k
    THEN [i \in 1..Len(d) |-> IF d[i][1] = k THEN <<k, v>> ELSE d[i]]
    ELSE Append(d, <<k, v>>)

RECURSIVE DictOfPrefix(_, _)
DictOfPrefix(pairs, n) ==
    IF n = 0 THEN <<>> ELSE DictPut(DictOfPrefix(pairs, n - 1), pairs[n][1], pairs[n][2])

\* post_label_to_pk = {label: pk for (label, pk) in post_options}
PostLabelToPk(pairs) == DictOfPrefix(pairs, Len(pairs))

\* list(d.keys())
DictKeys(d) == [i \in 1..Len(d) |-> d[i][1]]

\* d[k], for a key of d
DictGet(d, k) == d[CHOOSE i \in 1..Len(d) : d[i][1] = k][2]

\* Variant of CurrentLabel that takes the last match and defaults to the last label.
CurrentLabelLastMatch(d, pk) ==
    IF \E i \in 1..Len(d) : d[i][2] = pk
    THEN d[CHOOSE i \in 1..Len(d) :
             d[i][2] = pk /\ \A j \in i+1..Len(d) : d[j][2] # pk][1]
    ELSE d[Len(d)][1]

\* current_label: the first label whose pk is the stored one, else the first label.
CurrentLabel(d, pk) ==
    IF \E i \in 1..Len(d) : d[i][2] = pk
    THEN d[CHOOSE i \in 1..Len(d) :
             d[i][2] = pk /\ \A j \in 1..i-1 : d[j][2] # pk][1]
    ELSE d[1][1]

\* list.index(x): the first position of x, counted from 0.
IndexOf(list, x) ==
    (CHOOSE i \in 1..Len(list) : list[i] = x /\ \A j \in 1..i-1 : list[j] # x) - 1

\* What st.radio can return: the option the user picked in this rerun (pick
\* is its position, 0 when the user picked none); otherwise the option at
\* `index`, or the value the widget kept under its key if it is an option.
Radio(options, index, pick, kept) ==
    IF pick \in 1..Len(options)
    THEN {options[pick]}
    ELSE {options[index + 1]} \cup {o \in {options[i] : i \in 1..Len(options)} : kept = <<o>>}

\* Variant of SelectedPk that leaves the stored pk as it is.
SelectedPkNotUpdated(stored, d, selected_label) == stored

\* st.session_state.selected_post_pk = post_label_to_pk[selected_label]
SelectedPk(stored, d, selected_label) == DictGet(d, selected_label)

\* Variant of SelectedPostData that takes the first post whatever its pk.
SelectedPostDataFirstPost(posts, pk) == <<posts[1]>>

\* next((p for p in fetched_posts if p["pk"] == selected_post_pk), None)
SelectedPostData(posts, pk) ==
    IF \E i \in 1..Len(posts) : posts[i].pk = pk
    THEN <<posts[CHOOSE i \in 1..Len(posts) :
               posts[i].pk = pk /\ \A j \in 1..i-1 : posts[j].pk # pk]>>
    ELSE <<>>

\* The left column: the image (st.image, or the raw URL written when st.image
\* raises), or the notice that there is none.
ImageMessages(post) ==
    IF post.image_url # ""
    THEN {"image or its URL"}
    ELSE {"write: No image available."}

\* The messages of the module-level code, emitted on every run of the script.
ModuleMessages ==
    (IF ~groq_api_key THEN {"error: GROQ_API_KEY is missing."} ELSE {})
    \cup {"write: Secrets loaded successfully!"}

(***************************************************************************)
(* One run of the script: the module-level code, then main.                *)
(*   c         the interaction that triggered it                           *)
(*   listing   what the Instagram service does if it is asked              *)
(*   pick      the position of the radio option the user picked, or 0      *)
(*   completes whether the completion request returns                      *)
(***************************************************************************)
Main(c, listing, pick, completes) ==
    LET posts0 == SetDefault("fetched_posts", fetched_posts, <<>>)
        pk0 == SetDefault("selected_post_pk", selected_post_pk, None)
        fetch == IF c = "fetch"
                 THEN TryFetch(IG_USERNAME, IG_PASSWORD, listing)
                 ELSE NotCalled
        posts1 == IF c = "fetch" THEN StoreFetched(fetch, posts0) ELSE posts0
        msgs1 == ModuleMessages \cup (IF c = "fetch" THEN FetchMessages(fetch) ELSE {})
    IN  /\ click' = c
        /\ UNCHANGED config
        /\ session_keys' = session_keys \cup {"fetched_posts", "selected_post_pk"}
        /\ fetched_posts' = posts1
        /\ medias' = fetch.medias
        /\ fetch_result' = fetch.status
        /\ returned' = fetch.value
        /\ IF posts1 # <<>>
           THEN LET d == PostLabelToPk(PostOptions(posts1))
                    options == DictKeys(d)
                    index == IndexOf(options, CurrentLabel(d, pk0))
                IN  \E selected_label \in Radio(options, index, pick, selected_label_radio) :
                      LET pk1 == SelectedPk(pk0, d, selected_label)
                          data == SelectedPostData(posts1, pk1)
                          gen == IF data # <<>> /\ c = "generate"
                                 THEN GeneratePostInSameStyle(groq_env_key,
                                                              data[1].caption, completes)
                                 ELSE [status |-> "not_called", caption |-> <<>>,
                                       calls |-> <<>>]
                      IN  /\ radio_options' = options
                          /\ radio_index' = index
                          /\ selected_label_radio' = <<selected_label>>
                          /\ selected_post_pk' = pk1
                          /\ shown' = data
                          /\ generate_offered' = (data # <<>>)
                          /\ gen_result' = gen.status
                          /\ sent_caption' = gen.caption
                          /\ aborted' = (gen.status = "raised")
                          /\ trace' = fetch.calls \o gen.calls
                          /\ messages' =
                               msgs1
                               \cup (IF data # <<>>
                                     THEN ImageMessages(data[1])
                                     ELSE {"warning: No post selected yet."})
                               \cup (IF gen.status = "returned"
                                     THEN {"success: AI-Generated Post"}
                                     ELSE {})
           ELSE /\ radio_options' = <<>>
                /\ radio_index' = -1
                /\ selected_label_radio' = <<>>
                /\ selected_post_pk' = pk0
                /\ shown' = <<>>
                /\ generate_offered' = FALSE
                /\ gen_result' = "not_called"
                /\ sent_caption' = <<>>
                /\ aborted' = FALSE
                /\ trace' = fetch.calls
                /\ messages' = msgs1 \cup {"write: No posts loaded."}

\* What the listing service can do: fail at one of the three calls, or
\* return up to MaxMedias media.
Listings ==
    [fail_at : FailPoints, medias : {<<>>}]
    \cup [fail_at : {"none"}, medias : SeqsUpTo(Medias, MaxMedias)]

NoListing == [fail_at |-> "none", medias |-> <<>>]

\* A rerun without a click: the page is loaded, or a sidebar input changed.
Load ==
    Main("load", NoListing, 0, TRUE)

\* The user clicks Fetch Posts.
ClickFetch ==
    \E listing \in Listings : Main("fetch", listing, 0, TRUE)

\* The user picks another option of the radio rendered by the last rerun.
PickRadio ==
    \E pick \in 1..Len(radio_options) :
        /\ selected_label_radio # <<radio_options[pick]>>
        /\ Main("radio", NoListing, pick, TRUE)

\* The user clicks the Generate button rendered by the last rerun.
ClickGenerate ==
    /\ generate_offered
    /\ \E completes \in BOOLEAN : Main("generate", NoListing, 0, completes)

\* The secrets and the environment are read when the script runs and do not
\* change; Streamlit exports a root-level secret to the environment, so a
\* key in the secrets is in the environment too.
Init ==
    /\ groq_api_key \in BOOLEAN
    /\ groq_env_key \in BOOLEAN
    /\ groq_api_key => groq_env_key
    /\ IG_USERNAME \in BOOLEAN
    /\ IG_PASSWORD \in BOOLEAN
    /\ session_keys = {}
    /\ fetched_posts = <<>>
    /\ selected_post_pk = None
    /\ selected_label_radio = <<>>
    /\ click = "none"
    /\ medias = <<>>
    /\ fetch_result = "not_called"
    /\ returned = <<>>
    /\ gen_result = "not_called"
    /\ trace = <<>>
    /\ messages = {}
    /\ aborted = FALSE
    /\ radio_options = <<>>
    /\ radio_index = -1
    /\ shown = <<>>
    /\ generate_offered = FALSE
    /\ sent_caption = <<>>

Next == Load \/ ClickFetch \/ PickRadio \/ ClickGenerate

Spec == Init /\ [][Next]_vars

(***************************************************************************)
(* fetch_user_posts on its own: the listing result is drawn from every     *)
(* list of up to MaxMedias media in which each field varies, and the       *)
(* function is applied to it once.                                         *)
(***************************************************************************)
InitFetch ==
    /\ groq_api_key = FALSE
    /\ groq_env_key = FALSE
    /\ IG_USERNAME \in BOOLEAN
    /\ IG_PASSWORD \in BOOLEAN
    /\ session_keys = {}
    /\ fetched_posts = <<>>
    /\ selected_post_pk = None
    /\ selected_label_radio = <<>>
    /\ click = "none"
    /\ medias \in SeqsUpTo(MediasWide, MaxMedias)
    /\ fetch_result = "not_called"
    /\ returned = <<>>
    /\ gen_result = "not_called"
    /\ trace = <<>>
    /\ messages = {}
    /\ aborted = FALSE
    /\ radio_options = <<>>
    /\ radio_index = -1
    /\ shown = <<>>
    /\ generate_offered = FALSE
    /\ sent_caption = <<>>

ApplyFetch ==
    /\ fetch_result = "not_called"
    /\ \E fail \in FailPoints \cup {"none"} :
         LET r == FetchUserPosts(IG_USERNAME, IG_PASSWORD,
                                 [fail_at |-> fail, medias |-> medias])
         IN  /\ fetch_result' = r.status
             /\ returned' = r.value
             /\ trace' = r.calls
    /\ UNCHANGED <<config, session, click, medias, gen_result, messages, aborted,
                   radio_options, radio_index, shown, generate_offered, sent_caption>>

NextFetch == ApplyFetch

SpecFetch == InitFetch /\ [][NextFetch]_vars

(***************************************************************************)
(* Properties.                                                             *)
(***************************************************************************)
NetworkCalls ==
    {"net:login", "net:user_id_from_username", "net:user_medias", "net:chat_completion"}
IsNetworkCall(x) == x \in NetworkCalls
IsOperation(x) == x \in {"fetch_user_posts", "generate_post_in_same_style"}
NetCalls == SelectSeq(trace, IsNetworkCall)
Operations == SelectSeq(trace, IsOperation)
Holds(posts, pk) == \E i \in 1..Len(posts) : posts[i].pk = pk

\* C1: with a configuration value missing, the interaction that needs it
\* (Fetch Posts for an Instagram credential, Generate for the GROQ key)
\* ends with a visible error message and no network call attempted.
C1_MissingConfigNoNetworkCall ==
    /\ (click = "fetch" /\ (~IG_USERNAME \/ ~IG_PASSWORD))
         => /\ NetCalls = <<>>
            /\ "sidebar.error: Could not fetch posts." \in messages
    /\ (click = "generate" /\ ~groq_api_key)
         => /\ NetCalls = <<>>
            /\ "error: GROQ_API_KEY is missing." \in messages

\* C2: a failure of the listing call or of the generation call is caught in
\* main and shown as a message; the exception does not leave main.
C2_ExternalFailuresCaught ==
    (fetch_result = "raised" \/ gen_result = "raised")
        => /\ ~aborted
           /\ \E m \in messages : m \in {"sidebar.error: Could not fetch posts.",
                                         "sidebar.warning: No posts found or an error occurred."}

\* C3: a Fetch Posts click whose listing returns no records emits the
\* sidebar warning, leaves fetched_posts empty and shows 'No posts loaded'
\* with no selector and no Generate button.
C3_EmptyListingShowsEmptyState ==
    (click = "fetch" /\ fetch_result = "returned" /\ medias = <<>>)
        => /\ "sidebar.warning: No posts found or an error occurred." \in messages
           /\ fetched_posts = <<>>
           /\ "write: No posts loaded." \in messages
           /\ radio_options = <<>>
           /\ ~generate_offered

C3_Witness ==
    /\ click = "fetch" /\ fetch_result = "returned" /\ medias = <<>>
    /\ selected_post_pk # None
    /\ "write: No posts loaded." \in messages

\* C4: a rerun in which Fetch Posts is not clicked leaves fetched_posts
\* unchanged, and leaves selected_post_pk unchanged unless the user picked
\* another radio option in it.
C4_SessionRetained ==
    [][click' # "fetch"
         => /\ fetched_posts' = fetched_posts
            /\ (click' # "radio" => selected_post_pk' = selected_post_pk)]_vars

C4_Witness ==
    /\ click = "generate" /\ aborted
    /\ Len(fetched_posts) = 2
    /\ fetched_posts[1].pk # fetched_posts[2].pk
    /\ selected_post_pk = fetched_posts[2].pk

\* C5: a rerun performs at most one external operation and makes none of
\* its calls twice; the listing fetch happens only on a Fetch Posts click
\* and the generation request only on a Generate click.
C5_AtMostOneOperation ==
    /\ Len(Operations) <= 1
    /\ \A i, j \in 1..Len(trace) : i # j => trace[i] # trace[j]
    /\ Operations = <<"fetch_user_posts">> => click = "fetch"
    /\ Operations = <<"generate_post_in_same_style">> => click = "generate"
    /\ Operations = <<>> => trace = <<>>

C5_Witness ==
    /\ click = "fetch" /\ fetch_result = "raised"
    /\ trace = <<"fetch_user_posts", "net:login", "net:user_id_from_username",
                 "net:user_medias">>

\* C6: a Fetch Posts click whose listing raises or returns no records sets
\* fetched_posts to the empty list and leaves selected_post_pk as it was; one
\* that returns a non-empty list stores exactly that list.
C6_FetchReplacesPosts ==
    [][click' = "fetch"
         => IF fetch_result' = "raised" \/ returned' = <<>>
            THEN fetched_posts' = <<>> /\ selected_post_pk' = selected_post_pk
            ELSE fetched_posts' = returned' /\ Len(returned') = Len(medias')]_vars

C6_Witness ==
    /\ click = "fetch" /\ fetch_result = "raised"
    /\ fetched_posts = <<>>
    /\ selected_post_pk # None

\* C7 as stated: at the end of every rerun selected_post_pk is None or the
\* pk of a post held in fetched_posts, and the 'No post selected yet.'
\* branch is never reached.
C7_SelectedPkIsNoneOrStored ==
    /\ selected_post_pk = None \/ Holds(fetched_posts, selected_post_pk)
    /\ "warning: No post selected yet." \notin messages

\* C7 amended: at the end of every rerun in which fetched_posts is
\* non-empty, selected_post_pk is the pk of a post held in fetched_posts and
\* the lookup of the selected post succeeds; the 'No post selected yet.'
\* branch is never reached.
C7_SelectedPkStoredWhenPostsHeld ==
    /\ fetched_posts # <<>>
         => /\ Holds(fetched_posts, selected_post_pk)
            /\ shown # <<>>
            /\ shown[1].pk = selected_post_pk
    /\ "warning: No post selected yet." \notin messages

C7_Witness ==
    /\ click = "radio"
    /\ Len(fetched_posts) = 2
    /\ selected_post_pk = fetched_posts[2].pk
    /\ shown = <<fetched_posts[2]>>

\* C8: a generation request is issued only in a rerun whose fetched_posts
\* is non-empty, and the caption it sends is that of the post displayed in
\* the rerun: the first post of fetched_posts whose pk is selected_post_pk.
C8_GenerationUsesDisplayedCaption ==
    gen_result # "not_called"
        => /\ click = "generate"
           /\ fetched_posts # <<>>
           /\ shown # <<>>
           /\ sent_caption = <<shown[1].caption>>
           /\ \E i \in 1..Len(fetched_posts) :
                /\ fetched_posts[i] = shown[1]
                /\ fetched_posts[i].pk = selected_post_pk
                /\ \A j \in 1..i-1 : fetched_posts[j].pk # selected_post_pk

C8_Witness ==
    /\ gen_result = "returned"
    /\ Len(fetched_posts) = 2
    /\ fetched_posts[1].pk # fetched_posts[2].pk
    /\ fetched_posts[1].caption # fetched_posts[2].caption
    /\ selected_post_pk = fetched_posts[2].pk
    /\ sent_caption = <<fetched_posts[2].caption>>

\* C9: when the selector is rendered, every post has its own option (the
\* labels are pairwise distinct), the index is a position of the option
\* list, and the preselected option is that of a post whose pk is the stored
\* selected_post_pk if a fetched post has it, else the first post.
C9_RadioPreselection ==
    [][radio_options' # <<>>
         => /\ Len(radio_options') = Len(fetched_posts')
            /\ \A i, j \in 1..Len(radio_options') :
                 i # j => radio_options'[i] # radio_options'[j]
            /\ radio_index' \in 0..(Len(radio_options') - 1)
            /\ IF Holds(fetched_posts', selected_post_pk)
               THEN fetched_posts'[radio_index' + 1].pk = selected_post_pk
               ELSE radio_index' = 0]_vars

C9_Witness ==
    /\ click = "fetch"
    /\ Len(fetched_posts) = 2
    /\ radio_index = 1

\* C10: fetch_user_posts returns one record per media, in order, with pk,
\* caption, counts and timestamp copied; image_url is the media's thumbnail
\* URL when present, else the first resource's thumbnail URL when there is a
\* resource, else empty: always empty or the text of a real thumbnail URL.
C10_FetchUserPostsRecords ==
    fetch_result = "returned"
        => /\ Len(returned) = Len(medias)
           /\ \A i \in 1..Len(medias) :
                LET m == medias[i]
                    p == returned[i]
                IN  /\ p.pk = m.pk
                    /\ p.caption = m.caption_text
                    /\ p.like_count = m.like_count
                    /\ p.comment_count = m.comment_count
                    /\ p.taken_at = m.taken_at
                    /\ p.image_url =
                         IF m.thumbnail_url # <<>>
                         THEN m.thumbnail_url[1]
                         ELSE IF m.resources # <<>>
                              THEN m.resources[1].thumbnail_url[1]
                              ELSE ""
                    /\ p.image_url \in {""} \cup Urls

C10_Witness ==
    /\ fetch_result = "returned"
    /\ Len(medias) = 2
    /\ medias[1].thumbnail_url = <<>> /\ Len(medias[1].resources) = 2
    /\ returned[1].image_url = "https://cdn/t2.jpg"
    /\ medias[2].thumbnail_url = <<>> /\ medias[2].resources = <<>>
    /\ returned[2].image_url = ""

====
